---- MODULE Spec2Model ----
(***************************************************************************)
(* PredictedProcess (src/src/PredictedProcess.ts): run(signal) and the     *)
(* memoized run installed by memoize(), on one PredictedProcess instance;  *)
(* and PredictedProcessesManager (src/unnamed/part_001): its registry and  *)
(* runAll.                                                                 *)
(*                                                                         *)
(* The JavaScript run-time is modelled as it schedules the code: a         *)
(* macrotask (a call from user code, an event emitted by a ChildProcess,   *)
(* AbortController.abort()) runs to its end, then the promise jobs it      *)
(* queued run in FIFO order, one RunMicrotask step each, before the next   *)
(* macrotask starts.                                                       *)
(***************************************************************************)
EXTENDS Naturals, Sequences, FiniteSets

VARIABLES
  calls,            \* the run() calls made so far, in call order
  promises,         \* every promise created, in creation order
  handles,          \* every ChildProcess returned by spawn(), in spawn order
  _childProcess,    \* this._childProcess: 0 is null, else an index of handles
  _cache,           \* this._cache: Map<AbortSignal, Promise<void>>
  aborted,          \* signal.aborted, per AbortSignal
  abortListeners,   \* the 'abort' listeners of each AbortSignal, in order
  microtasks,       \* the promise job queue
  _processes,       \* PredictedProcessesManager._processes
  lastOp,           \* the last registry operation user code called
  runAlls,          \* the runAll() calls made so far, in call order
  wrappers,         \* the processes memoize() returned, in creation order
  via               \* the wrapper each memoized run was called through

processVars == <<calls, promises, handles, _childProcess, _cache,
                 abortListeners, microtasks>>

managerVars == <<_processes, lastOp, runAlls>>

wrapperVars == <<wrappers, via>>

vars == <<calls, promises, handles, _childProcess, _cache, aborted,
          abortListeners, microtasks, _processes, lastOp, runAlls,
          wrappers, via>>

----------------------------------------------------------------------------
(* Bounds *)

MaxCalls == 2
MaxProcesses == 3      \* entries in the registry
MaxRunAlls == 1        \* runAll() calls
MaxWrappers == 2       \* memoize() calls

----------------------------------------------------------------------------
(* Values *)

\* AbortSignal identities, in the order user code creates them
SignalOrder == <<"s1", "s2">>
Signals == {SignalOrder[i] : i \in DOMAIN SignalOrder}
NoSignal == "undefined"             \* run() called without a signal
Keys == Signals \cup {NoSignal}

Events == {"error", "exit", "close"}

\* (code, signal) pairs a ChildProcess reports on 'exit' and 'close'
ExitStatuses ==
  { [code |-> "0", signal |-> "null"],
    [code |-> "1", signal |-> "null"],
    [code |-> "null", signal |-> "SIGTERM"] }

NoStatus == [code |-> "none", signal |-> "none"]

\* a failed spawn reports a negative errno as the code of 'close'
SpawnFailed == [code |-> "-2", signal |-> "null"]

Undefined == [type |-> "undefined", message |-> <<>>]
Null == [type |-> "null", message |-> <<>>]
Str(s) == [type |-> "string", message |-> <<s>>]
Err(m) == [type |-> "Error", message |-> m]

\* the value the 'exit' listener rejects with: its second parameter
SignalValue(status) ==
  IF status.signal = "null" THEN Null ELSE Str(status.signal)

SpawnError == Err(<<"spawn error">>)
AbortedBeforeExecution == Err(<<"Aborted before execution">>)
AbortSignalTriggered == Err(<<"AbortSignal triggered">>)
SignalAlreadyAborted == Err(<<"Signal already aborted">>)

\* `Process exited with code $ {code}`: the blank between $ and { makes the
\* template literal plain text, so the code is not interpolated
CloseError(code) == Err(<<"Process exited with code $ {code}">>)

----------------------------------------------------------------------------
(* Promises *)

NoKey == "none"

Pending(p) == promises[p].st = "pending"
Resolved(p) == promises[p].st = "resolved"
Rejected(p) == promises[p].st = "rejected"

NewPromise == [st |-> "pending", val |-> Undefined, reactions |-> <<>>]

Job(k, src, dst, key, st, val) ==
  [k |-> k, src |-> src, dst |-> dst, key |-> key, st |-> st, val |-> val]

\* the job that runs reaction r of a promise settled as (st, val)
ReactionJob(r, st, val) == Job(r.k, 0, r.dst, r.key, st, val)

RECURSIVE ReactionJobs(_, _, _)
ReactionJobs(rs, st, val) ==
  IF rs = <<>> THEN <<>>
  ELSE <<ReactionJob(Head(rs), st, val)>> \o ReactionJobs(Tail(rs), st, val)

\* a promise without its latch: a later resolve()/reject() settles it again
SettleOverwrites(pm, p, st, val) ==
  [ps |-> [pm.ps EXCEPT ![p] = [st |-> st, val |-> val, reactions |-> <<>>]],
   mq |-> pm.mq \o ReactionJobs(pm.ps[p].reactions, st, val)]

\* resolve()/reject() of promise p on the pair pm = [ps, mq] (promises, job
\* queue): a settled promise ignores it; else p settles and one job per
\* registered reaction is queued, in registration order
Settle(pm, p, st, val) ==
  IF pm.ps[p].st # "pending" THEN pm
  ELSE [ps |-> [pm.ps EXCEPT ![p] = [st |-> st, val |-> val, reactions |-> <<>>]],
        mq |-> pm.mq \o ReactionJobs(pm.ps[p].reactions, st, val)]

\* src.then(...)/src.catch(...) with reaction r
Then(pm, src, r) ==
  IF pm.ps[src].st = "pending"
  THEN [pm EXCEPT !.ps[src].reactions = Append(@, r)]
  ELSE [pm EXCEPT !.mq = Append(@, ReactionJob(r, pm.ps[src].st, pm.ps[src].val))]

Adopt(dst) == [k |-> "adopt", dst |-> dst, key |-> NoKey]
Evict(key) == [k |-> "evict", dst |-> 0, key |-> key]

\* an async function returning promise src: its own promise dst is resolved
\* with src, which queues the job that calls src.then(resolve dst, reject dst)
ReturnPromise(pm, src, dst) ==
  [pm EXCEPT !.mq = Append(@, Job("thenable", src, dst, NoKey, "pending", Undefined))]

----------------------------------------------------------------------------
(* PredictedProcess.run *)

NewHandle(signal, p) ==
  [signal |-> signal, p |-> p, listeners |-> Events, phase |-> "running",
   status |-> NoStatus, killedBy |-> {}, clearedBy |-> {}]

\* cleanup() as called by the listeners of invocation `by`:
\* this._childProcess?.removeAllListeners(); this._childProcess?.kill()
cleanup(hs, cp, by) ==
  IF cp = 0 THEN hs
  ELSE [hs EXCEPT ![cp].listeners = {},
                  ![cp].clearedBy = @ \cup {by},
                  ![cp].killedBy = @ \cup {by}]

RunAbortedSkipped(signal) == FALSE

\* if (signal?.aborted)
RunAborted(signal) == signal # NoSignal /\ aborted[signal]

\* the state after run(signal) has returned; ret is the promise it returned
\* and inv the handle it spawned (0: none)
run(signal) ==
  LET p1 == Len(promises) + 1     \* the async function's promise
      p0 == Len(promises) + 2     \* new Promise(...)
      h == Len(handles) + 1
  IN IF RunAborted(signal)
     THEN [promises |-> Append(promises,
                          [st |-> "rejected", val |-> AbortedBeforeExecution,
                           reactions |-> <<>>]),
           microtasks |-> microtasks,
           handles |-> handles,
           childProcess |-> _childProcess,
           abortListeners |-> abortListeners,
           ret |-> p1, inv |-> 0]
     ELSE LET pm == ReturnPromise(
                      [ps |-> promises \o <<NewPromise, NewPromise>>,
                       mq |-> microtasks], p0, p1)
          IN [promises |-> pm.ps,
              microtasks |-> pm.mq,
              handles |-> Append(handles, NewHandle(signal, p0)),
              childProcess |-> h,
              abortListeners |->
                IF signal = NoSignal THEN abortListeners
                ELSE [abortListeners EXCEPT ![signal] = Append(@, h)],
              ret |-> p1, inv |-> h]

Call(memo, signal, ret, inner, inv) ==
  [memo |-> memo, signal |-> signal, ret |-> ret, inner |-> inner, inv |-> inv]

\* user code holds signal: the signals created before it have been used
Used(signal) ==
  \/ aborted[signal]
  \/ \E c \in DOMAIN calls : calls[c].signal = signal
  \/ \E r \in DOMAIN runAlls : runAlls[r].signal = signal

Created(signal) ==
  \/ signal = NoSignal
  \/ \E i \in DOMAIN SignalOrder :
       /\ SignalOrder[i] = signal
       /\ \A j \in 1..(i - 1) : Used(SignalOrder[j])

\* user code calls process.run(signal)
Run(signal) ==
  /\ microtasks = <<>>
  /\ Created(signal)
  /\ Len(calls) < MaxCalls
  /\ LET r == run(signal)
     IN /\ promises' = r.promises
        /\ microtasks' = r.microtasks
        /\ handles' = r.handles
        /\ _childProcess' = r.childProcess
        /\ abortListeners' = r.abortListeners
        /\ calls' = Append(calls, Call(FALSE, signal, r.ret, r.ret, r.inv))
  /\ UNCHANGED <<_cache, aborted>>
  /\ UNCHANGED managerVars
  /\ UNCHANGED wrapperVars

----------------------------------------------------------------------------
(* The listeners run() registers *)

\* 'error': reject(error)
OnError(h) ==
  LET pm == Settle([ps |-> promises, mq |-> microtasks], handles[h].p,
                   "rejected", SpawnError)
  IN [handles |-> handles, pm |-> pm]

\* 'exit': code === 0 ? (cleanup(), resolve()) : reject(signal)
OnExit(hs, h, status) ==
  IF status.code = "0"
  THEN [handles |-> cleanup(hs, _childProcess, h),
        pm |-> Settle([ps |-> promises, mq |-> microtasks], hs[h].p,
                      "resolved", Undefined)]
  ELSE [handles |-> hs,
        pm |-> Settle([ps |-> promises, mq |-> microtasks], hs[h].p,
                      "rejected", SignalValue(status))]

\* 'close': code === 0 ? (cleanup(), resolve()) : reject(new Error(...))
OnClose(hs, h, status) ==
  IF status.code = "0"
  THEN [handles |-> cleanup(hs, _childProcess, h),
        pm |-> Settle([ps |-> promises, mq |-> microtasks], hs[h].p,
                      "resolved", Undefined)]
  ELSE [handles |-> hs,
        pm |-> Settle([ps |-> promises, mq |-> microtasks], hs[h].p,
                      "rejected", CloseError(status.code))]

\* the 'abort' listeners of a signal, run in registration order, each:
\* cleanup(); reject(new Error('AbortSignal triggered'))
RECURSIVE OnAbort(_, _)
OnAbort(st, ls) ==
  IF ls = <<>> THEN st
  ELSE OnAbort([handles |-> cleanup(st.handles, _childProcess, Head(ls)),
                pm |-> Settle(st.pm, handles[Head(ls)].p, "rejected",
                              AbortSignalTriggered)],
               Tail(ls))

----------------------------------------------------------------------------
(* The ChildProcess handles and the AbortSignals: the environment *)

\* spawn fails: the handle emits 'error' instead of 'exit', and 'close'
\* follows. An EventEmitter with no 'error' listener throws on emit('error')
\* and the program ends there, so the event is modelled only while the
\* listener is attached.
EmitError(h) ==
  /\ microtasks = <<>>
  /\ handles[h].phase = "running"
  /\ "error" \in handles[h].listeners
  /\ LET r == OnError(h)
     IN /\ handles' = [r.handles EXCEPT ![h].phase = "ended",
                                        ![h].status = SpawnFailed]
        /\ promises' = r.pm.ps
        /\ microtasks' = r.pm.mq
  /\ UNCHANGED <<calls, _childProcess, _cache, aborted, abortListeners>>
  /\ UNCHANGED managerVars
  /\ UNCHANGED wrapperVars

\* the process ends: the handle emits 'exit' (code, signal)
EmitExit(h, status) ==
  /\ microtasks = <<>>
  /\ handles[h].phase = "running"
  /\ LET hs == [handles EXCEPT ![h].phase = "ended", ![h].status = status]
         r == IF "exit" \in handles[h].listeners
              THEN OnExit(hs, h, status)
              ELSE [handles |-> hs, pm |-> [ps |-> promises, mq |-> microtasks]]
     IN /\ handles' = r.handles
        /\ promises' = r.pm.ps
        /\ microtasks' = r.pm.mq
  /\ UNCHANGED <<calls, _childProcess, _cache, aborted, abortListeners>>
  /\ UNCHANGED managerVars
  /\ UNCHANGED wrapperVars

\* the stdio streams of an exited process are closed: the handle emits
\* 'close' with the status of its 'exit'
EmitClose(h) ==
  /\ microtasks = <<>>
  /\ handles[h].phase = "ended"
  /\ LET hs == [handles EXCEPT ![h].phase = "closed"]
         r == IF "close" \in handles[h].listeners
              THEN OnClose(hs, h, handles[h].status)
              ELSE [handles |-> hs, pm |-> [ps |-> promises, mq |-> microtasks]]
     IN /\ handles' = r.handles
        /\ promises' = r.pm.ps
        /\ microtasks' = r.pm.mq
  /\ UNCHANGED <<calls, _childProcess, _cache, aborted, abortListeners>>
  /\ UNCHANGED managerVars
  /\ UNCHANGED wrapperVars

\* user code calls controller.abort(): the signal becomes aborted and its
\* 'abort' event is dispatched, once
Abort(signal) ==
  /\ microtasks = <<>>
  /\ Created(signal)
  /\ ~aborted[signal]
  /\ aborted' = [aborted EXCEPT ![signal] = TRUE]
  /\ LET r == OnAbort([handles |-> handles,
                       pm |-> [ps |-> promises, mq |-> microtasks]],
                      abortListeners[signal])
     IN /\ handles' = r.handles
        /\ promises' = r.pm.ps
        /\ microtasks' = r.pm.mq
  /\ UNCHANGED <<calls, _childProcess, _cache, abortListeners>>
  /\ UNCHANGED managerVars
  /\ UNCHANGED wrapperVars

----------------------------------------------------------------------------
(* memoize(): the run of the memoized process *)

MemoAbortedSkipped(signal) == FALSE

\* if (signal?.aborted)
MemoAborted(signal) == signal # NoSignal /\ aborted[signal]

\* a lookup that compares signals by value: any two signals are equal
CacheLookupByValue(cache, signal) ==
  IF signal \in DOMAIN cache THEN cache[signal]
  ELSE IF signal \in Signals /\ DOMAIN cache \cap Signals # {}
  THEN cache[CHOOSE k \in DOMAIN cache \cap Signals : TRUE]
  ELSE 0

\* a lookup guarded by `signal &&`: a call without a signal never hits
CacheLookupNeedsSignal(cache, signal) ==
  IF signal # NoSignal /\ signal \in DOMAIN cache THEN cache[signal] ELSE 0

\* this._cache.has(signal) ? this._cache.get(signal) : none (0), where
\* cache is the Map this._cache names
CacheLookup(cache, signal) ==
  IF signal \in DOMAIN cache THEN cache[signal] ELSE 0

CacheSetSkipped(cache, signal, promise) == cache

\* this._cache.set(signal, promise)
CacheSet(cache, signal, promise) ==
  [k \in DOMAIN cache \cup {signal} |->
     IF k = signal THEN promise ELSE cache[k]]

\* this._cache.delete(signal)
CacheDelete(signal) ==
  [k \in DOMAIN _cache \ {signal} |-> _cache[k]]

\* promise.finally(handler) in the place of promise.catch(handler)
CatchRunsAlways(st) == TRUE

\* the eviction never runs
CatchRunsNever(st) == FALSE

\* promise.catch(handler): the handler runs when the promise is rejected
CatchRuns(st) == st = "rejected"

\* the body of memoizedProcess.run, with cache the Map its this._cache names:
\* the state it leaves and the call it makes
memoizedRun(cache, signal) ==
  IF MemoAborted(signal)
  THEN LET pM == Len(promises) + 1
       IN [promises |-> Append(promises,
                          [st |-> "rejected", val |-> SignalAlreadyAborted,
                           reactions |-> <<>>]),
           microtasks |-> microtasks, handles |-> handles,
           childProcess |-> _childProcess, abortListeners |-> abortListeners,
           cache |-> cache,
           call |-> Call(TRUE, signal, pM, 0, 0)]
  ELSE IF CacheLookup(cache, signal) # 0
  THEN LET pM == Len(promises) + 1
           cached == CacheLookup(cache, signal)
           pm == ReturnPromise([ps |-> Append(promises, NewPromise),
                                mq |-> microtasks], cached, pM)
       IN [promises |-> pm.ps, microtasks |-> pm.mq, handles |-> handles,
           childProcess |-> _childProcess, abortListeners |-> abortListeners,
           cache |-> cache,
           call |-> Call(TRUE, signal, pM, cached, 0)]
  ELSE LET r == run(signal)
           promise == r.ret
           pM == Len(r.promises) + 1
           pm == ReturnPromise(
                   Then([ps |-> Append(r.promises, NewPromise),
                         mq |-> r.microtasks], promise, Evict(signal)),
                   promise, pM)
       IN [promises |-> pm.ps, microtasks |-> pm.mq, handles |-> r.handles,
           childProcess |-> r.childProcess,
           abortListeners |-> r.abortListeners,
           cache |-> CacheSet(cache, signal, promise),
           call |-> Call(TRUE, signal, pM, promise, r.inv)]

\* user code calls memoizedProcess.run(signal)
MemoRun(signal) ==
  /\ microtasks = <<>>
  /\ Created(signal)
  /\ Len(calls) < MaxCalls
  /\ LET m == memoizedRun(_cache, signal)
     IN /\ promises' = m.promises
        /\ microtasks' = m.microtasks
        /\ handles' = m.handles
        /\ _childProcess' = m.childProcess
        /\ abortListeners' = m.abortListeners
        /\ _cache' = m.cache
        /\ calls' = Append(calls, m.call)
  /\ UNCHANGED aborted
  /\ UNCHANGED managerVars
  /\ UNCHANGED wrapperVars

----------------------------------------------------------------------------
(* memoize(): the processes it returns *)

\* the process memoize() is called on
Process == 0

\* memoizedProcess.run is a function expression: its this is memoizedProcess
ThisIsWrapper(w) == w

\* memoizedProcess.run is an arrow function: its this is the this of
\* memoize(), the process memoize() was called on
This(w) == Process

\* this._cache in the run of wrapper w
ThisCache(w) == IF This(w) = Process THEN _cache ELSE wrappers[w]._cache

\* new PredictedProcess(this.id, this.command): the fields of the new object
NewWrapper == [_childProcess |-> 0, _cache |-> [k \in {} |-> 0]]

\* the wrappers a memoized run has been called through
UsedWrappers == {via[i].wrapper : i \in DOMAIN via}

\* user code calls process.memoize(). Wrappers are interchangeable and
\* memoize() changes nothing of the process: a run where a wrapper is made
\* earlier than its first use differs from one where it is made once the
\* wrappers before it are in use only in the names of the wrappers.
Memoize ==
  /\ microtasks = <<>>
  /\ Len(wrappers) < MaxWrappers
  /\ UsedWrappers = DOMAIN wrappers
  /\ wrappers' = Append(wrappers, NewWrapper)
  /\ UNCHANGED <<via, aborted>>
  /\ UNCHANGED processVars
  /\ UNCHANGED managerVars

\* user code calls run(signal) of wrapper w
MemoRunVia(w, signal) ==
  /\ microtasks = <<>>
  /\ Created(signal)
  /\ Len(calls) < MaxCalls
  /\ LET m == memoizedRun(ThisCache(w), signal)
     IN /\ promises' = m.promises
        /\ microtasks' = m.microtasks
        /\ handles' = m.handles
        /\ _childProcess' = m.childProcess
        /\ abortListeners' = m.abortListeners
        /\ IF This(w) = Process
           THEN /\ _cache' = m.cache
                /\ wrappers' = wrappers
           ELSE /\ _cache' = _cache
                /\ wrappers' = [wrappers EXCEPT ![w]._cache = m.cache]
        /\ calls' = Append(calls, m.call)
        /\ via' = Append(via, [call |-> Len(calls) + 1, wrapper |-> w])
  /\ UNCHANGED aborted
  /\ UNCHANGED managerVars

----------------------------------------------------------------------------
(* The promise job queue *)

RunMicrotask ==
  /\ microtasks # <<>>
  /\ LET job == Head(microtasks)
         pm0 == [ps |-> promises, mq |-> Tail(microtasks)]
         pm == CASE job.k = "thenable" -> Then(pm0, job.src, Adopt(job.dst))
                 [] job.k = "adopt" -> Settle(pm0, job.dst, job.st, job.val)
                 [] OTHER -> pm0
     IN /\ promises' = pm.ps
        /\ microtasks' = pm.mq
        /\ _cache' = IF job.k = "evict" /\ CatchRuns(job.st)
                     THEN CacheDelete(job.key) ELSE _cache
  /\ UNCHANGED <<calls, handles, _childProcess, aborted, abortListeners>>
  /\ UNCHANGED managerVars
  /\ UNCHANGED wrapperVars

----------------------------------------------------------------------------
(* PredictedProcessesManager *)

\* PredictedProcess objects user code holds; two of them have the same id
Processes == {"a1", "b1", "c2"}

\* process.id
ProcessId(process) == IF process = "c2" THEN 2 ELSE 1

\* the ids user code passes: those of the processes and one of no process
Ids == {ProcessId(process) : process \in Processes} \cup {3}

NotFound == "undefined"

\* an addProcess that keeps ids unique: a process whose id is registered is
\* not added
addUniqueProcess(ps, process) ==
  IF \E i \in DOMAIN ps : ProcessId(ps[i]) = ProcessId(process)
  THEN ps ELSE Append(ps, process)

\* this._processes.push(process)
addProcess(ps, process) == Append(ps, process)

RECURSIVE Filter(_, _)
Filter(ps, id) ==
  IF ps = <<>> THEN <<>>
  ELSE IF ProcessId(Head(ps)) # id
       THEN <<Head(ps)>> \o Filter(Tail(ps), id)
       ELSE Filter(Tail(ps), id)

\* a removal that drops the first entry with the id only
RECURSIVE removeFirstProcess(_, _)
removeFirstProcess(ps, id) ==
  IF ps = <<>> THEN <<>>
  ELSE IF ProcessId(Head(ps)) = id THEN Tail(ps)
       ELSE <<Head(ps)>> \o removeFirstProcess(Tail(ps), id)

\* this._processes.filter((process) => process.id !== id)
removeProcess(ps, id) == Filter(ps, id)

\* this.processes.find((process) => process.id === id)
getProcess(ps, id) ==
  IF \E i \in DOMAIN ps : ProcessId(ps[i]) = id
  THEN ps[CHOOSE i \in DOMAIN ps :
            /\ ProcessId(ps[i]) = id
            /\ \A j \in 1..(i - 1) : ProcessId(ps[j]) # id]
  ELSE NotFound

\* a registry operation as user code saw it: fresh (of addProcess): no
\* entry had the id of the process; removed (of removeProcess): the number
\* of entries that left the registry; result (of getProcess): what it returned
Op(op, process, id, fresh, removed, result) ==
  [op |-> op, process |-> process, id |-> id, fresh |-> fresh,
   removed |-> removed, result |-> result]

\* user code calls manager.addProcess(process)
AddProcess(process) ==
  /\ Len(_processes) < MaxProcesses
  /\ _processes' = addProcess(_processes, process)
  /\ lastOp' = Op("addProcess", process, ProcessId(process),
                  \A i \in DOMAIN _processes :
                    ProcessId(_processes[i]) # ProcessId(process),
                  0, NotFound)
  /\ UNCHANGED <<runAlls, aborted>>
  /\ UNCHANGED processVars
  /\ UNCHANGED wrapperVars

\* user code calls manager.removeProcess(id)
RemoveProcess(id) ==
  /\ _processes' = removeProcess(_processes, id)
  /\ lastOp' = Op("removeProcess", NotFound, id, FALSE,
                  Len(_processes) - Len(removeProcess(_processes, id)), NotFound)
  /\ UNCHANGED <<runAlls, aborted>>
  /\ UNCHANGED processVars
  /\ UNCHANGED wrapperVars

\* user code calls manager.getProcess(id)
GetProcess(id) ==
  /\ lastOp' = Op("getProcess", NotFound, id, FALSE, 0,
                  getProcess(_processes, id))
  /\ UNCHANGED <<_processes, runAlls, aborted>>
  /\ UNCHANGED processVars
  /\ UNCHANGED wrapperVars

\* async runAll(signal?) { /* TODO: Implement this. */ }: the body is empty,
\* so the call runs no process and returns a promise resolved with undefined.
\* The call is recorded with what user code knows of it: whether the signal
\* was aborted and whether the registry held a process when it was made, and
\* the runs of registered processes it started (runs).
runAll(signal) ==
  [signal |-> signal,
   abortedAtCall |-> signal # NoSignal /\ aborted[signal],
   hadMembers |-> _processes # <<>>,
   runs |-> <<>>,
   st |-> "resolved", val |-> Undefined]

\* user code calls manager.runAll(signal)
RunAll(signal) ==
  /\ Created(signal)
  /\ Len(runAlls) < MaxRunAlls
  /\ runAlls' = Append(runAlls, runAll(signal))
  /\ UNCHANGED <<_processes, lastOp, aborted>>
  /\ UNCHANGED processVars
  /\ UNCHANGED wrapperVars

----------------------------------------------------------------------------
Init ==
  /\ calls = <<>>
  /\ promises = <<>>
  /\ handles = <<>>
  /\ _childProcess = 0
  /\ _cache = [k \in {} |-> 0]
  /\ aborted = [s \in Signals |-> FALSE]
  /\ abortListeners = [s \in Signals |-> <<>>]
  /\ microtasks = <<>>
  /\ _processes = <<>>
  /\ lastOp = Op("none", NotFound, 0, FALSE, 0, NotFound)
  /\ runAlls = <<>>
  /\ wrappers = <<>>
  /\ via = <<>>

Next ==
  \/ \E signal \in Keys : Run(signal)
  \/ \E signal \in Keys : MemoRun(signal)
  \/ \E signal \in Signals : Abort(signal)
  \/ \E h \in DOMAIN handles : EmitError(h)
  \/ \E h \in DOMAIN handles : \E status \in ExitStatuses : EmitExit(h, status)
  \/ \E h \in DOMAIN handles : EmitClose(h)
  \/ RunMicrotask

Spec == Init /\ [][Next]_vars

\* user code working with a manager: the registry, runAll and the signals
ManagerNext ==
  \/ \E process \in Processes : AddProcess(process)
  \/ \E id \in Ids : RemoveProcess(id)
  \/ \E id \in Ids : GetProcess(id)
  \/ \E signal \in Keys : RunAll(signal)
  \/ \E signal \in Signals : Abort(signal)

ManagerSpec == Init /\ [][ManagerNext]_vars

\* the signals user code passes to the wrappers: one AbortSignal, or none
WrapperKeys == {SignalOrder[1], NoSignal}

\* user code working with the wrappers of one process
WrapperNext ==
  \/ Memoize
  \/ \E w \in DOMAIN wrappers : \E signal \in WrapperKeys : MemoRunVia(w, signal)
  \/ \E signal \in WrapperKeys \cap Signals : Abort(signal)
  \/ \E h \in DOMAIN handles : EmitError(h)
  \/ \E h \in DOMAIN handles : \E status \in ExitStatuses : EmitExit(h, status)
  \/ \E h \in DOMAIN handles : EmitClose(h)
  \/ RunMicrotask

WrapperSpec == Init /\ [][WrapperNext]_vars

----------------------------------------------------------------------------
(* Properties *)

\* a step that is a call of run or of the memoized run, and the call made
CallStep == Len(calls') = Len(calls) + 1
TheCall == calls'[Len(calls')]

\* the calls that started an invocation of run (spawned a process)
Invocations == {c \in DOMAIN calls : calls[c].inv # 0}

IsAborted(k) == k \in Signals /\ aborted[k]

\* C1: a run(signal) call with signal already aborted returns a promise that
\* is rejected when the call returns, and the call spawns no process, creates
\* no handle and registers no listener on a handle or on the signal.
C1_AbortedRunRejectsAtOnce ==
  [][(CallStep /\ ~TheCall.memo /\ IsAborted(TheCall.signal))
     => /\ promises'[TheCall.ret].st = "rejected"
        /\ promises'[TheCall.ret].val = AbortedBeforeExecution
        /\ TheCall.inv = 0
        /\ handles' = handles
        /\ _childProcess' = _childProcess
        /\ abortListeners' = abortListeners
        /\ microtasks' = microtasks]_vars

C1_Witness ==
  \E c \in DOMAIN calls :
    /\ ~calls[c].memo
    /\ IsAborted(calls[c].signal)
    /\ calls[c].inv = 0
    /\ Rejected(calls[c].ret)
    /\ promises[calls[c].ret].val = AbortedBeforeExecution

\* C2: once the promise returned by an invocation of run has settled, the
\* handle this invocation spawned has had its listeners removed and has
\* been killed.
C2_CleanupBeforeSettled ==
  \A c \in Invocations :
    ~Pending(calls[c].inner)
      => /\ handles[calls[c].inv].listeners = {}
         /\ handles[calls[c].inv].killedBy # {}

\* C3: an invocation rejected by its 'abort' listener (the signal fired
\* while it was in flight) has issued kill() against the process it spawned.
C3_AbortKillsOwnProcess ==
  \A h \in DOMAIN handles :
    (Rejected(handles[h].p) /\ promises[handles[h].p].val = AbortSignalTriggered)
      => h \in handles[h].killedBy

\* C4: after an invocation has resolved (its process exited with code 0), no
\* listener of the invocation remains attached to its handle.
C4_ResolvedLeavesNoListener ==
  \A h \in DOMAIN handles :
    Resolved(handles[h].p)
      => /\ promises[handles[h].p].val = Undefined
         /\ handles[h].listeners = {}

\* a rejection value names the exit status: the exit code, or the signal
\* that ended the process when the code is null
IdentifiesStatus(val, status) ==
  \E i \in DOMAIN val.message :
    val.message[i] = (IF status.code = "null" THEN status.signal ELSE status.code)

\* C5: an invocation whose process exited with a non-zero or null code, and
\* whose handle emitted 'exit' and then 'close' to its listeners, is rejected
\* with a value that identifies the exit status and differs from the abort
\* and spawn failures.
C5_NonZeroExitIdentified ==
  \A h \in DOMAIN handles :
    (/\ handles[h].phase = "closed"
     /\ handles[h].status \in ExitStatuses
     /\ handles[h].status.code # "0"
     /\ Rejected(handles[h].p)
     /\ promises[handles[h].p].val \notin {AbortSignalTriggered, SpawnError})
      => IdentifiesStatus(promises[handles[h].p].val, handles[h].status)

\* the memoized calls made with signal k
MemoCalls(k) == {c \in DOMAIN calls : calls[c].memo /\ calls[c].signal = k}

\* the memoized calls with signal k that started an invocation of run
MemoInvocations(k) == MemoCalls(k) \cap Invocations

\* the promise a memoized call returned has the outcome of the promise of
\* the invocation it joined
SameOutcome(c) ==
  /\ promises[calls[c].ret].st = promises[calls[c].inner].st
  /\ promises[calls[c].ret].val = promises[calls[c].inner].val

\* C6: a memoized run(k) called with k not aborted, after a memoized run(k)
\* has resolved, spawns no process and joins the promise of that first run;
\* and once the promise jobs have run, a call that joined a resolved promise
\* is resolved with the same value.
C6_SuccessIsReused ==
  /\ [][(CallStep /\ TheCall.memo /\ ~IsAborted(TheCall.signal))
        => \A c \in MemoCalls(TheCall.signal) :
             Resolved(calls[c].ret)
               => /\ TheCall.inv = 0
                  /\ handles' = handles
                  /\ TheCall.inner = calls[c].inner]_vars
  /\ [](\A c \in DOMAIN calls :
          (calls[c].memo /\ calls[c].inner # 0 /\ microtasks = <<>>
             /\ Resolved(calls[c].inner))
            => (Resolved(calls[c].ret) /\ SameOutcome(c)))

\* the second call joined a promise that was resolved when it was made:
\* the job that subscribes it to that promise is still queued
C6_Witness ==
  \E c1, c2 \in DOMAIN calls :
    /\ c1 < c2
    /\ calls[c1].memo /\ calls[c2].memo
    /\ calls[c1].signal = calls[c2].signal
    /\ ~IsAborted(calls[c2].signal)
    /\ Resolved(calls[c1].ret)
    /\ calls[c2].inv = 0
    /\ calls[c2].inner = calls[c1].inner
    /\ Len(microtasks) = 1
    /\ microtasks[1].k = "thenable" /\ microtasks[1].dst = calls[c2].ret

\* C7: for each signal at most one invocation started by the memoized run is
\* in flight at any time; a memoized run(k) called while such an invocation
\* is in flight spawns no process and joins it; and every caller that joined
\* an invocation gets the outcome of that invocation.
C7_OneInvocationInFlight ==
  /\ [](\A k \in Keys :
          Cardinality({c \in MemoInvocations(k) : Pending(calls[c].inner)}) <= 1)
  /\ [][(CallStep /\ TheCall.memo)
        => \A c \in MemoInvocations(TheCall.signal) :
             Pending(calls[c].inner)
               => /\ TheCall.inv = 0
                  /\ handles' = handles
                  /\ TheCall.inner = calls[c].inner]_vars
  /\ [](\A c \in DOMAIN calls :
          (calls[c].memo /\ calls[c].inner # 0)
            => /\ ~Pending(calls[c].ret) => SameOutcome(c)
               /\ (microtasks = <<>> /\ ~Pending(calls[c].inner))
                    => SameOutcome(c))

\* two callers are subscribed to the promise of one invocation in flight
C7_Witness ==
  \E c1, c2 \in DOMAIN calls :
    /\ c1 < c2
    /\ calls[c1].memo /\ calls[c2].memo
    /\ calls[c1].signal = calls[c2].signal
    /\ calls[c1].inv # 0 /\ calls[c2].inv = 0
    /\ calls[c2].inner = calls[c1].inner
    /\ Pending(calls[c1].inner)
    /\ \E i, j \in DOMAIN promises[calls[c1].inner].reactions :
         /\ promises[calls[c1].inner].reactions[i] = Adopt(calls[c1].ret)
         /\ promises[calls[c1].inner].reactions[j] = Adopt(calls[c2].ret)

\* the last invocation the memoized run started for signal k has failed
LastFailed(k) ==
  /\ MemoInvocations(k) # {}
  /\ \E c \in MemoInvocations(k) :
       /\ \A d \in MemoInvocations(k) : d <= c
       /\ Rejected(calls[c].inner)

\* a rejected memoized call leaves no cache entry holding the promise it got
FailureEvicted ==
  \A c \in DOMAIN calls :
    (calls[c].memo /\ calls[c].inner # 0 /\ Rejected(calls[c].ret))
      => \A k \in DOMAIN _cache : _cache[k] # calls[c].inner

\* C8 as stated: when a memoized run has failed or was aborted, the cache
\* holds no entry for its signal once a caller can see the failure, and the
\* next memoized run with the same signal spawns a fresh process.
C8_FailureRespawns ==
  /\ []FailureEvicted
  /\ [][(CallStep /\ TheCall.memo /\ LastFailed(TheCall.signal))
        => (TheCall.inv # 0 /\ Len(handles') = Len(handles) + 1)]_vars

\* C8 amended: ... and the next memoized run with the same signal spawns a
\* fresh process if the signal is not aborted; if it is aborted (as it is
\* after the abort of a run), the call fails at once and joins no outcome.
C8_FailureRespawnsUnlessAborted ==
  /\ []FailureEvicted
  /\ [][(CallStep /\ TheCall.memo /\ LastFailed(TheCall.signal))
        => IF IsAborted(TheCall.signal)
           THEN /\ TheCall.inv = 0 /\ TheCall.inner = 0
                /\ promises'[TheCall.ret].st = "rejected"
                /\ promises'[TheCall.ret].val = SignalAlreadyAborted
           ELSE /\ TheCall.inv # 0
                /\ Len(handles') = Len(handles) + 1
                /\ TheCall.inner \notin DOMAIN promises]_vars

C8_Witness ==
  \E c1, c2 \in DOMAIN calls :
    /\ c1 < c2
    /\ calls[c1].memo /\ calls[c2].memo
    /\ calls[c1].signal = calls[c2].signal
    /\ calls[c1].inv # 0
    /\ Rejected(calls[c1].ret)
    /\ calls[c2].inv # 0
    /\ calls[c2].inner # calls[c1].inner

\* the signal of the invocation that made promise p for the memoized run
SignalOf(p) ==
  {calls[c].signal : c \in {d \in Invocations : calls[d].memo /\ calls[d].inner = p}}

\* C9: a cache entry holds the promise of an invocation started with the
\* signal that is its key, a memoized call never joins the promise of an
\* invocation started with another signal, and a memoized run(k) with k not
\* aborted and no invocation for k in flight or resolved starts its own.
C9_SignalsShareNoEntry ==
  /\ \A k \in DOMAIN _cache : SignalOf(_cache[k]) = {k}
  /\ \A c \in DOMAIN calls :
       (calls[c].memo /\ calls[c].inner # 0)
         => SignalOf(calls[c].inner) = {calls[c].signal}
  /\ \A c \in DOMAIN calls :
       (/\ calls[c].memo /\ calls[c].inv = 0 /\ calls[c].inner # 0)
         => \E d \in MemoInvocations(calls[c].signal) : d < c

C9_Witness ==
  \E c1, c2 \in DOMAIN calls :
    /\ c1 < c2
    /\ calls[c1].memo /\ calls[c2].memo
    /\ calls[c1].signal # calls[c2].signal
    /\ calls[c1].inv # 0 /\ calls[c2].inv # 0
    /\ {calls[c1].signal, calls[c2].signal} \subseteq DOMAIN _cache
    /\ _cache[calls[c1].signal] # _cache[calls[c2].signal]
    /\ Resolved(calls[c1].inner)

\* C10: a memoized run(signal) call with signal already aborted returns a
\* promise that is rejected when the call returns, starts no invocation and
\* leaves the cache as it was.
C10_AbortedMemoRunLeavesCache ==
  [][(CallStep /\ TheCall.memo /\ IsAborted(TheCall.signal))
     => /\ promises'[TheCall.ret].st = "rejected"
        /\ promises'[TheCall.ret].val = SignalAlreadyAborted
        /\ TheCall.inv = 0 /\ TheCall.inner = 0
        /\ _cache' = _cache
        /\ handles' = handles
        /\ _childProcess' = _childProcess
        /\ abortListeners' = abortListeners
        /\ microtasks' = microtasks]_vars

\* the call was made while the cache held a resolved entry for its signal
C10_Witness ==
  \E c \in DOMAIN calls :
    /\ calls[c].memo
    /\ IsAborted(calls[c].signal)
    /\ calls[c].inv = 0 /\ calls[c].inner = 0
    /\ promises[calls[c].ret].val = SignalAlreadyAborted
    /\ calls[c].signal \in DOMAIN _cache
    /\ Resolved(_cache[calls[c].signal])

----------------------------------------------------------------------------
(* Properties of PredictedProcessesManager, under ManagerSpec *)

\* every run a runAll call started has resolved, and it started one
MembersResolved(r) ==
  /\ runAlls[r].runs # <<>>
  /\ \A j \in DOMAIN runAlls[r].runs : runAlls[r].runs[j].st = "resolved"

\* C11: a runAll call made with processes registered is resolved only if it
\* ran them and every run resolved; if a run failed, it is rejected with the
\* failure of one of the runs.
C11_RunAllResolvesOnlyIfAllResolve ==
  \A r \in DOMAIN runAlls :
    /\ (runAlls[r].hadMembers /\ runAlls[r].st = "resolved")
         => MembersResolved(r)
    /\ (\E j \in DOMAIN runAlls[r].runs : runAlls[r].runs[j].st = "rejected")
         => /\ runAlls[r].st = "rejected"
            /\ \E j \in DOMAIN runAlls[r].runs :
                 /\ runAlls[r].runs[j].st = "rejected"
                 /\ runAlls[r].runs[j].val = runAlls[r].val

\* C12: a runAll(signal) call made with processes registered and the signal
\* not aborted, whose signal is aborted before every run has resolved, is
\* rejected with the abort error.
C12_RunAllRejectsOnAbort ==
  \A r \in DOMAIN runAlls :
    (/\ runAlls[r].signal \in Signals
     /\ ~runAlls[r].abortedAtCall
     /\ runAlls[r].hadMembers
     /\ aborted[runAlls[r].signal]
     /\ ~MembersResolved(r))
      => /\ runAlls[r].st = "rejected"
         /\ runAlls[r].val = AbortSignalTriggered

\* C13: after addProcess(p) on a registry with no entry of p's id,
\* getProcess(p.id) is p; after removeProcess(id), getProcess(id) is
\* undefined, whatever was added before.
C13_RegistryRoundTrip ==
  /\ (lastOp.op = "addProcess" /\ lastOp.fresh)
       => getProcess(_processes, lastOp.id) = lastOp.process
  /\ lastOp.op = "removeProcess"
       => getProcess(_processes, lastOp.id) = NotFound

\* removeProcess has removed two entries of one id and left another entry
C13_Witness ==
  /\ lastOp.op = "removeProcess"
  /\ lastOp.removed >= 2
  /\ _processes # <<>>
  /\ getProcess(_processes, lastOp.id) = NotFound

----------------------------------------------------------------------------
(* Properties of PredictedProcess, under Spec (continued) *)

\* the calls of the unmemoized run that spawned a process
PlainInvocations == {c \in Invocations : ~calls[c].memo}

\* C14: the cleanup of an invocation of the unmemoized run is never applied
\* to the handle another such invocation spawned.
C14_CleanupHitsOwnHandle ==
  \A c1, c2 \in PlainInvocations :
    c1 # c2
      => calls[c1].inv \notin
           (handles[calls[c2].inv].killedBy \cup handles[calls[c2].inv].clearedBy)

\* C15: once the handle of an invocation has emitted its terminal event, or
\* the signal of the invocation has fired, and the promise jobs have run, the
\* invocation has settled.
C15_SettledAfterTerminalEvent ==
  \A c \in Invocations :
    (/\ microtasks = <<>>
     /\ \/ handles[calls[c].inv].phase # "running"
        \/ IsAborted(calls[c].signal))
      => ~Pending(calls[c].inner)

\* the 'abort' listeners of invocation h on its signal
AbortListenersOf(h) ==
  {i \in DOMAIN abortListeners[handles[h].signal] :
     abortListeners[handles[h].signal][i] = h}

\* C16: an invocation with a signal has one 'abort' listener on the signal
\* while it is in flight and none once it has settled.
C16_AbortListenerRemoved ==
  \A h \in DOMAIN handles :
    handles[h].signal \in Signals
      => Cardinality(AbortListenersOf(h)) = (IF Pending(handles[h].p) THEN 1 ELSE 0)

\* the promises of call c: the one it returned, the one it joined and the
\* one its listeners settle
PromisesOf(c) ==
  ({calls[c].ret, calls[c].inner} \ {0})
    \cup (IF calls[c].inv # 0 THEN {handles[calls[c].inv].p} ELSE {})

C18_SuccessStaysCached ==
  /\ [][\A k \in DOMAIN _cache :
          Resolved(_cache[k])
            => (k \in DOMAIN _cache' /\ _cache'[k] = _cache[k])]_vars
  /\ [][_cache' # _cache
          => \/ /\ CallStep /\ TheCall.memo /\ TheCall.inv # 0
                /\ TheCall.signal \notin DOMAIN _cache
                /\ DOMAIN _cache' = DOMAIN _cache \cup {TheCall.signal}
                /\ _cache'[TheCall.signal] = TheCall.inner
                /\ \A k \in DOMAIN _cache : _cache'[k] = _cache[k]
             \/ \E k \in DOMAIN _cache :
                  /\ Rejected(_cache[k])
                  /\ DOMAIN _cache' = DOMAIN _cache \ {k}
                  /\ \A j \in DOMAIN _cache' : _cache'[j] = _cache[j]]_vars

\* the entry of a signal is still cached, resolved, after the signal fired
C18_Witness ==
  \E k \in DOMAIN _cache :
    /\ Resolved(_cache[k])
    /\ IsAborted(k)

\* C19: of the invocations the memoized run started without a signal, at most
\* one is in flight or resolved; a memoized call without a signal joins only
\* an invocation started without a signal, and a call with a signal never
\* joins one.
C19_NoSignalIsOneKey ==
  /\ Cardinality({c \in MemoInvocations(NoSignal) : ~Rejected(calls[c].inner)}) <= 1
  /\ \A c \in DOMAIN calls :
       (calls[c].memo /\ calls[c].inner # 0)
         => (calls[c].signal = NoSignal <=> SignalOf(calls[c].inner) = {NoSignal})

C19_Witness ==
  \E c1, c2 \in MemoCalls(NoSignal) :
    /\ c1 < c2
    /\ calls[c1].inv # 0 /\ calls[c2].inv = 0
    /\ calls[c2].inner = calls[c1].inner
    /\ NoSignal \in DOMAIN _cache

----------------------------------------------------------------------------
(* Properties of the wrappers, under WrapperSpec *)

\* the wrapper call c was made through
Wrapper(c) == via[CHOOSE i \in DOMAIN via : via[i].call = c].wrapper

\* C20: a memoized run(t) through one wrapper, made after a memoized run(t)
\* through another wrapper started an invocation that has not failed, spawned
\* no process and joined the promise of that invocation.
C20_WrappersJoin ==
  \A k \in WrapperKeys :
    \A c1 \in MemoInvocations(k) : \A c2 \in MemoCalls(k) :
      (/\ c1 < c2
       /\ Wrapper(c1) # Wrapper(c2)
       /\ ~Rejected(calls[c1].inner))
        => /\ calls[c2].inv = 0
           /\ calls[c2].inner = calls[c1].inner

\* C20, amended: a memoized run(t) through one wrapper, made after a memoized
\* run(t) through another wrapper started an invocation that has not failed,
\* spawned no process; it joined the promise of that invocation, unless t was
\* aborted when it was made, and then it was rejected with 'Signal already
\* aborted' and joined nothing.
C20_WrappersShareCache ==
  \A k \in WrapperKeys :
    \A c1 \in MemoInvocations(k) : \A c2 \in MemoCalls(k) :
      (/\ c1 < c2
       /\ Wrapper(c1) # Wrapper(c2)
       /\ ~Rejected(calls[c1].inner))
        => /\ calls[c2].inv = 0
           /\ \/ calls[c2].inner = calls[c1].inner
              \/ /\ IsAborted(k)
                 /\ calls[c2].inner = 0
                 /\ Rejected(calls[c2].ret)
                 /\ promises[calls[c2].ret].val = SignalAlreadyAborted

C20_Witness ==
  \E k \in Signals :
    \E c1 \in MemoInvocations(k) : \E c2 \in MemoCalls(k) :
      /\ c1 < c2
      /\ Wrapper(c1) # Wrapper(c2)
      /\ calls[c2].inv = 0
      /\ calls[c2].inner = calls[c1].inner
      /\ Resolved(calls[c1].ret)
      /\ Resolved(calls[c2].ret)

----------------------------------------------------------------------------
(* Properties of the registry, under ManagerSpec (continued) *)

\* the entry is kept by removeProcess(lastOp'.id)
KeptByRemove(process) == ProcessId(process) # lastOp'.id

\* C21: a step that is a removeProcess(id) call leaves in the registry the
\* entries whose id is not id, all of them and in their order, and no entry
\* whose id is id; a step that is an addProcess(p) call leaves the registry
\* with p appended at its end, whether or not the id of p was registered, and
\* every entry before it as it was; no other step changes the registry.
C21_RegistryFrame ==
  [][(lastOp' # lastOp \/ _processes' # _processes)
       => \/ /\ lastOp'.op = "removeProcess"
             /\ _processes' = SelectSeq(_processes, KeptByRemove)
             /\ \A i \in DOMAIN _processes' :
                  ProcessId(_processes'[i]) # lastOp'.id
          \/ /\ lastOp'.op = "addProcess"
             /\ Len(_processes') = Len(_processes) + 1
             /\ _processes'[Len(_processes')] = lastOp'.process
             /\ \A i \in DOMAIN _processes : _processes'[i] = _processes[i]
          \/ /\ lastOp'.op = "getProcess"
             /\ _processes' = _processes]_vars

\* a process whose id was registered has been appended after the entry of
\* that id
C21_Witness ==
  /\ lastOp.op = "addProcess"
  /\ ~lastOp.fresh
  /\ Len(_processes) >= 2
  /\ _processes[Len(_processes)] = lastOp.process
  /\ \E i \in 1..(Len(_processes) - 1) :
       ProcessId(_processes[i]) = ProcessId(lastOp.process)

----------------------------------------------------------------------------
(* Properties of PredictedProcess, under Spec (continued) *)

\* C22: a step in which a signal fires kills, and removes the listeners of,
\* no handle spawned by a run called with another signal or with none.
C22_AbortHitsOwnSignal ==
  [][\A signal \in Signals :
       (aborted'[signal] /\ ~aborted[signal])
         => \A h \in DOMAIN handles :
              (\/ handles'[h].killedBy # handles[h].killedBy
               \/ handles'[h].clearedBy # handles[h].clearedBy)
                => handles[h].signal = signal]_vars

====
